---- MODULE Spec2Model ----
(***************************************************************************)
(* State-machine model of the QuestVuforia native bridge:                  *)
(*   vuforia_engine_wrapper.{h,cpp}  VuforiaEngineWrapper, ExternalCamera  *)
(*   image_target_tracker.cpp / model_target_tracker.cpp                   *)
(*   quforia_jni.cpp                 the JNI entry points                  *)
(* The closed vendor engine is represented by the handles it hands out     *)
(* and by the trace of calls made into it.                                 *)
(***************************************************************************)
EXTENDS Integers, Sequences, FiniteSets, TLC

----------------------------------------------------------------------------
\* Bounds of the model.

\* engines the vendor is asked to create in one history
MaxInits == 2
\* frames delivered to one external camera object
MaxFrames == 1
\* length of the exhaustively enumerated observation lists
MaxObs == 2
\* largest maxResults passed to getTrackedTargets directly
MaxResultsArg == 3
\* how far an intrinsics array may exceed the 12 floats that are read
IntrinsicsSlack == 1

\* Program constants.

\* ImageTargetResult results[10]; getTrackedTargets(results, 10)
ResultCapacity == 10
\* intrinsics[0..5] and intrinsics[6 + i] for i < 6
IntrinsicsRead == 12

----------------------------------------------------------------------------
VARIABLES
    \* VuforiaEngineWrapper
    engine_, externalCamera_, initialized_,
    \* ExternalCameraImpl (the object externalCamera_ points to)
    callback_, frameIndex_,
    \* quforia_jni.cpp globals
    g_imageTargetTracker, g_modelTargetTracker,
    \* vendor side: handles that are alive, and the next handle
    liveEngines, liveCameras, liveObservers, nextId,
    \* the last completed entry-point call: name, result, calls it made
    lastOp,
    \* concurrent histories of wrapper calls: per-thread position and locals
    pc, local, mutex_,
    \* a single call with drawn inputs (getTrackedTargets, nativeProcessFrame),
    \* or the arguments of the last tracker call
    input,
    \* per tracker, whether a loadDatabase has returned true on it and the
    \* path of the last one that did (kept in the tracker-level histories)
    loadHistory

wrapperVars == <<engine_, externalCamera_, initialized_, callback_, frameIndex_>>
trackerVars == <<g_imageTargetTracker, g_modelTargetTracker>>
vendorVars  == <<liveEngines, liveCameras, liveObservers, nextId>>
threadVars  == <<pc, local, mutex_>>
vars == <<wrapperVars, trackerVars, vendorVars, lastOp, threadVars, input, loadHistory>>

----------------------------------------------------------------------------
\* Handles and strings.

NullHandle == 0
NullStr == "NULL"
DbPaths == {"", "db1", "db2"}
TargetNames == {"a"}

\* A call into the vendor SDK (or an object construction / destruction):
\* f the function, h the handle it is given or yields, ok its result,
\* name and db the target a created observer is configured with.
CallOn(f, h, ok, name, db) == [f |-> f, h |-> h, ok |-> ok, name |-> name, db |-> db]

Call(f, h, ok) == CallOn(f, h, ok, "", "")

\* g_imageTargetTracker = nullptr
NullTracker ==
    [obj |-> FALSE, engine_ |-> NullHandle, observers_ |-> FALSE,
     elems |-> <<>>, databasePath_ |-> ""]

NoInput == [kind |-> "none"]

NoLoads == [k \in {"image", "model"} |-> [loaded |-> FALSE, path |-> ""]]

\* lastOp of a call: op its name, ret its boolean result, count the integer
\* result (array length), calls the trace, pre whether the wrapper was
\* initialized when the call began.
\* writes: the result entries written, reads: the array indices read,
\* fault: the call ended in a memory fault instead of returning,
\* frames: the camera frames handed to the vendor callback.
Op(op, ret, count, calls, pre) ==
    [op |-> op, ret |-> ret, count |-> count, calls |-> calls, pre |-> pre,
     writes |-> <<>>, reads |-> {}, fault |-> FALSE, frames |-> <<>>]

\* What a thread last read from the wrapper: h the engine handle,
\* guarded whether it held mutex_, torn whether another thread was in the
\* middle of initialize or shutdown, stale whether it passed the vendor a
\* handle of an engine already destroyed.
NoLocal == [h |-> NullHandle, guarded |-> TRUE, torn |-> FALSE, stale |-> FALSE]

----------------------------------------------------------------------------
\* The vendor's handle tables, as changed by a trace of calls.

RECURSIVE EnginesAfter(_, _)
EnginesAfter(live, calls) ==
    IF calls = <<>> THEN live
    ELSE LET c == Head(calls) IN
         EnginesAfter(
            IF c.f = "vuEngineCreate" /\ c.ok THEN live \cup {c.h}
            ELSE IF c.f = "vuEngineDestroy" THEN live \ {c.h}
            ELSE live,
            Tail(calls))

RECURSIVE CamerasAfter(_, _)
CamerasAfter(live, calls) ==
    IF calls = <<>> THEN live
    ELSE LET c == Head(calls) IN
         CamerasAfter(
            IF c.f = "new ExternalCameraImpl" THEN live \cup {c.h}
            ELSE IF c.f = "delete ExternalCameraImpl" THEN live \ {c.h}
            ELSE live,
            Tail(calls))

\* An observer lives from its successful creation until vuObserverDestroy;
\* the vendor destroys an engine's remaining observers with the engine.
RECURSIVE ObserversAfter(_, _)
ObserversAfter(live, calls) ==
    IF calls = <<>> THEN live
    ELSE LET c == Head(calls) IN
         ObserversAfter(
            IF c.f \in {"vuEngineCreateImageTargetObserver",
                        "vuEngineCreateModelTargetObserver"} /\ c.ok
            THEN live \cup {[engine |-> c.h, f |-> c.f, name |-> c.name, db |-> c.db]}
            ELSE IF c.f = "vuEngineDestroy" THEN {o \in live : o.engine # c.h}
            ELSE IF c.f = "vuObserverDestroy"
            THEN {o \in live : ~(o.engine = c.h /\ o.name = c.name /\ o.db = c.db)}
            ELSE live,
            Tail(calls))

----------------------------------------------------------------------------
\* VuforiaEngineWrapper (vuforia_engine_wrapper.cpp).  Each method is an
\* operator of the current state that yields the fields after the call,
\* the value returned and the calls made; the whole body runs under mutex_.

InitOutcomes == {"configFail", "createFail", "startFail", "ok"}

\* if (initialized_) { LOGE("Vuforia already initialized"); return false; }
AlreadyInitialized_Unchecked == FALSE

AlreadyInitialized == initialized_

\* The wrapper's fields and result when nothing is changed.
WrapperSame(ret, calls) ==
    [ret |-> ret, engine_ |-> engine_, externalCamera_ |-> externalCamera_,
     initialized_ |-> initialized_, calls |-> calls]

\* vuEngineCreate failed: the camera is deleted, engine_ is as the vendor
\* left it (a failed vuEngineCreate does not set the handle).
InitCreateFailed(id) ==
    [ret |-> FALSE, engine_ |-> engine_, externalCamera_ |-> NullHandle,
     initialized_ |-> initialized_,
     calls |-> << Call("vuEngineConfigSetCreate", id, TRUE),
                  Call("new ExternalCameraImpl", id, TRUE),
                  Call("vuEngineCreate", id, FALSE),
                  Call("vuEngineConfigSetDestroy", id, TRUE),
                  Call("delete ExternalCameraImpl", id, TRUE) >>]

\* the vuEngineStart failure branch without delete externalCamera_
InitStartFailed_KeepsCamera(id) ==
    [ret |-> FALSE, engine_ |-> NullHandle, externalCamera_ |-> id,
     initialized_ |-> initialized_,
     calls |-> << Call("vuEngineConfigSetCreate", id, TRUE),
                  Call("new ExternalCameraImpl", id, TRUE),
                  Call("vuEngineCreate", id, TRUE),
                  Call("vuEngineConfigSetDestroy", id, TRUE),
                  Call("vuEngineStart", id, FALSE),
                  Call("vuEngineDestroy", id, TRUE) >>]

\* vuEngineStart failed: the engine is destroyed and the camera deleted.
InitStartFailed(id) ==
    [ret |-> FALSE, engine_ |-> NullHandle, externalCamera_ |-> NullHandle,
     initialized_ |-> initialized_,
     calls |-> << Call("vuEngineConfigSetCreate", id, TRUE),
                  Call("new ExternalCameraImpl", id, TRUE),
                  Call("vuEngineCreate", id, TRUE),
                  Call("vuEngineConfigSetDestroy", id, TRUE),
                  Call("vuEngineStart", id, FALSE),
                  Call("vuEngineDestroy", id, TRUE),
                  Call("delete ExternalCameraImpl", id, TRUE) >>]

InitSucceeded(id) ==
    [ret |-> TRUE, engine_ |-> id, externalCamera_ |-> id,
     initialized_ |-> TRUE,
     calls |-> << Call("vuEngineConfigSetCreate", id, TRUE),
                  Call("new ExternalCameraImpl", id, TRUE),
                  Call("vuEngineCreate", id, TRUE),
                  Call("vuEngineConfigSetDestroy", id, TRUE),
                  Call("vuEngineStart", id, TRUE) >>]

\* bool VuforiaEngineWrapper::initialize(licenseKey, javaVM, activity);
\* outcome is what the vendor calls answer, id the handle a created engine
\* and camera get.
initialize(outcome, id) ==
    IF AlreadyInitialized THEN WrapperSame(FALSE, <<>>)
    ELSE IF outcome = "configFail"
    THEN WrapperSame(FALSE, << Call("vuEngineConfigSetCreate", id, FALSE) >>)
    ELSE IF outcome = "createFail" THEN InitCreateFailed(id)
    ELSE IF outcome = "startFail" THEN InitStartFailed(id)
    ELSE InitSucceeded(id)

\* if (engine_) { vuEngineStop(engine_); vuEngineDestroy(engine_); ... }
ShutdownEngineCalls ==
    IF engine_ # NullHandle
    THEN << Call("vuEngineStop", engine_, TRUE), Call("vuEngineDestroy", engine_, TRUE) >>
    ELSE <<>>

\* if (externalCamera_) { delete externalCamera_; ... }
ShutdownCameraCalls ==
    IF externalCamera_ # NullHandle
    THEN << Call("delete ExternalCameraImpl", externalCamera_, TRUE) >>
    ELSE <<>>

\* shutdown() that forgets initialized_ = false
ShutdownDone_StaysInitialized ==
    [ret |-> TRUE, engine_ |-> NullHandle, externalCamera_ |-> NullHandle,
     initialized_ |-> initialized_,
     calls |-> ShutdownEngineCalls \o ShutdownCameraCalls]

ShutdownDone ==
    [ret |-> TRUE, engine_ |-> NullHandle, externalCamera_ |-> NullHandle,
     initialized_ |-> FALSE,
     calls |-> ShutdownEngineCalls \o ShutdownCameraCalls]

\* void VuforiaEngineWrapper::shutdown()
shutdown ==
    IF ~initialized_ THEN WrapperSame(TRUE, <<>>)
    ELSE ShutdownDone

\* void ExternalCameraImpl::deliverFrame(...): the calls it makes
deliverFrame ==
    IF ~callback_ THEN <<>>
    ELSE << Call("onNewCameraFrame", externalCamera_, TRUE) >>

\* the low 16 bits of x * y, for x and y of 16 bits
MulLow16(x, y) == (x * (y % 256) + ((x * (y \div 256)) % 256) * 256) % 65536

\* a * b in int: 32 bits, two's complement, wrapping around as the
\* targets of the build do.  The product is put together from the 16-bit
\* halves of a and b, so that no intermediate value leaves 32 bits.
Mul32(a, b) ==
    LET al == a % 65536
        ah == (a \div 65536) % 65536
        bl == b % 65536
        bh == (b \div 65536) % 65536
        p0 == al * (bl % 256)
        p1 == al * (bl \div 256)
        lo == (p0 % 65536) + (p1 % 256) * 256
        hi == ((p0 \div 65536) + (p1 \div 256) + (lo \div 65536)
                 + MulLow16(al, bh) + MulLow16(ah, bl)) % 65536
    IN  (IF hi >= 32768 THEN hi - 65536 ELSE hi) * 65536 + (lo % 65536)

\* frame.bufferSize = width * height * 3;
BufferSize(width, height) == Mul32(Mul32(width, height), 3)

\* The CameraFrame deliverFrame fills in for an image of width x height.
CameraFrame(width, height) ==
    [bufferSize |-> BufferSize(width, height), width |-> width, height |-> height,
     stride |-> Mul32(width, 3)]

\* bool VuforiaEngineWrapper::processFrame(...)
processFrame ==
    IF ~initialized_ \/ externalCamera_ = NullHandle
    THEN [ret |-> FALSE, calls |-> <<>>]
    ELSE [ret |-> TRUE, calls |-> deliverFrame]

\* VuEngine* getEngine() const { return engine_; }
getEngine(w) == w.engine_

----------------------------------------------------------------------------
\* ImageTargetTracker / ModelTargetTracker (image_target_tracker.cpp,
\* model_target_tracker.cpp: the same code up to the vendor type names).
\* A tracker is the record of its fields; kind is "image" or "model".

TrackerKinds == {"image", "model"}

CreateObserverFn(kind) ==
    IF kind = "image" THEN "vuEngineCreateImageTargetObserver"
    ELSE "vuEngineCreateModelTargetObserver"

\* ImageTargetTracker::ImageTargetTracker(VuEngine* engine): listOk is the
\* result of vuObserverListCreate; the list it creates is empty.
NewTracker(engine, listOk) ==
    [obj |-> TRUE, engine_ |-> engine, observers_ |-> listOk,
     elems |-> <<>>, databasePath_ |-> ""]

NewTrackerCalls(engine, listOk) == << Call("vuObserverListCreate", engine, listOk) >>

LoadOutcomes == {"listFail", "loadFail", "ok"}

\* bool loadDatabase(const char* databasePath)
loadDatabase(t, path, outcome) ==
    IF t.engine_ = NullHandle \/ path = NullStr
    THEN [ret |-> FALSE, t |-> t, calls |-> <<>>]
    ELSE IF outcome = "listFail"
    THEN [ret |-> FALSE, t |-> t,
          calls |-> << Call("vuDatabaseTargetInfoListCreate", t.engine_, FALSE) >>]
    ELSE IF outcome = "loadFail"
    THEN [ret |-> FALSE, t |-> t,
          calls |-> << Call("vuDatabaseTargetInfoListCreate", t.engine_, TRUE),
                       CallOn("vuEngineGetDatabaseTargetInfo", t.engine_, FALSE, "", path),
                       Call("vuDatabaseTargetInfoListDestroy", t.engine_, TRUE) >>]
    ELSE [ret |-> TRUE, t |-> [t EXCEPT !.databasePath_ = path],
          calls |-> << Call("vuDatabaseTargetInfoListCreate", t.engine_, TRUE),
                       CallOn("vuEngineGetDatabaseTargetInfo", t.engine_, TRUE, "", path),
                       Call("vuDatabaseTargetInfoListGetSize", t.engine_, TRUE),
                       Call("vuDatabaseTargetInfoListDestroy", t.engine_, TRUE) >>]

\* createTargetObserver without the test of databasePath_
createTargetObserver_NoPathCheck(t, kind, name, ok) ==
    IF t.engine_ = NullHandle \/ name = NullStr
    THEN [ret |-> FALSE, t |-> t, calls |-> <<>>]
    ELSE [ret |-> ok, t |-> t,
          calls |-> << CallOn(CreateObserverFn(kind), t.engine_, ok, name, t.databasePath_) >>]

\* bool createTargetObserver(const char* targetName [, guideViewName]):
\* the observer the vendor creates is not added to observers_.
createTargetObserver(t, kind, name, ok) ==
    IF t.engine_ = NullHandle \/ name = NullStr
    THEN [ret |-> FALSE, t |-> t, calls |-> <<>>]
    ELSE IF t.databasePath_ = ""
    THEN [ret |-> FALSE, t |-> t, calls |-> <<>>]
    ELSE [ret |-> ok, t |-> t,
          calls |-> << CallOn(CreateObserverFn(kind), t.engine_, ok, name, t.databasePath_) >>]

\* The loop of destroyTargetObserver over observers_ from element i on.
RECURSIVE DestroyNamed(_, _, _)
DestroyNamed(elems, i, name) ==
    IF i > Len(elems) THEN <<>>
    ELSE IF elems[i].name = name
    THEN << CallOn("vuObserverDestroy", elems[i].engine, TRUE, elems[i].name, elems[i].db) >>
    ELSE DestroyNamed(elems, i + 1, name)

\* void destroyTargetObserver(const char* targetName)
destroyTargetObserver(t, name) ==
    IF ~t.observers_ \/ name = NullStr THEN <<>>
    ELSE << Call("vuObserverListGetSize", t.engine_, TRUE) >> \o DestroyNamed(t.elems, 1, name)

\* void destroyAllObservers()
destroyAllObservers(t) ==
    IF ~t.observers_ THEN <<>>
    ELSE << Call("vuObserverListGetSize", t.engine_, TRUE) >>
         \o [i \in 1..Len(t.elems) |->
               CallOn("vuObserverDestroy", t.elems[i].engine, TRUE,
                      t.elems[i].name, t.elems[i].db)]

\* delete g_imageTargetTracker: ~ImageTargetTracker() runs
\* destroyAllObservers and destroys the observer list.
DeleteTracker(t, kind) ==
    IF ~t.obj THEN <<>>
    ELSE << Call(IF kind = "image" THEN "delete ImageTargetTracker"
                 ELSE "delete ModelTargetTracker", t.engine_, TRUE) >>
         \o destroyAllObservers(t)
         \o (IF t.observers_ THEN << Call("vuObserverListDestroy", t.engine_, TRUE) >> ELSE <<>>)

----------------------------------------------------------------------------
\* getTrackedTargets.  An observation of the engine state is a record:
\*   type    "image", "model" or "other" (vuObservationGetType)
\*   pose    "fail" when vuObservationGetPoseInfo fails, else the pose status
\*   info    "ok", "fail" (the target-info query fails) or "null" (null name)
\*   name    the target's name,  nameLen  its length in characters
\*   statusOk / status  the status-info query

PoseStatuses == {"NO_POSE", "LIMITED", "TRACKED", "EXTENDED_TRACKED"}

\* char name[256] of ImageTargetResult / ModelTargetResult
NameSize == 256

Obs(type, pose) ==
    [type |-> type, pose |-> pose, info |-> "ok", name |-> "a", nameLen |-> 1,
     statusOk |-> TRUE, status |-> 1]

\* A tracked observation of target "b" with the given answers of the
\* target-info and status-info queries.
NamedObs(type, info, nameLen, statusOk) ==
    [type |-> type, pose |-> "TRACKED", info |-> info, name |-> "b",
     nameLen |-> nameLen, statusOk |-> statusOk, status |-> 2]

\* if (obsType != VU_OBSERVATION_IMAGE_TARGET_TYPE) continue;   with the
\* type test left out
HasTrackerType_Any(o, kind) == TRUE

HasTrackerType(o, kind) == o.type = kind

\* poseStatus is TRACKED or EXTENDED_TRACKED (after a successful
\* vuObservationGetPoseInfo)
IsTracked(o) == o.pose \in {"TRACKED", "EXTENDED_TRACKED"}

\* strncpy(name, targetInfo.name, sizeof(name) - 1): the characters copied
CopiedLen(nameLen) == IF nameLen < NameSize - 1 THEN nameLen ELSE NameSize - 1

\* The entry written to results[slot] for observation i: name is what the
\* name buffer holds afterwards ("UNINIT": it was not written, nameLen -1:
\* whatever the buffer held before the call).
ResultEntry(slot, i, o) ==
    [slot |-> slot, obs |-> i,
     name |-> IF o.info = "ok" THEN o.name ELSE "UNINIT",
     nameLen |-> IF o.info = "ok" THEN CopiedLen(o.nameLen) ELSE -1,
     status |-> IF o.statusOk THEN o.status ELSE 0]

\* the loop condition without the resultCount < maxResults test
LoopContinues_Unbounded(i, n, resultCount, maxResults) == i <= n

\* for (i = 0; i < numObservations && resultCount < maxResults; i++)
\* (observations are numbered from 1 here)
LoopContinues(i, n, resultCount, maxResults) ==
    i <= n /\ resultCount < maxResults

\* The loop from observation i on, resultCount entries written so far;
\* writes is the sequence of entries written, in order.
RECURSIVE TrackLoop(_, _, _, _, _, _)
TrackLoop(obs, kind, maxResults, i, resultCount, writes) ==
    IF ~LoopContinues(i, Len(obs), resultCount, maxResults)
    THEN [count |-> resultCount, writes |-> writes]
    ELSE IF ~HasTrackerType(obs[i], kind)
    THEN TrackLoop(obs, kind, maxResults, i + 1, resultCount, writes)
    ELSE IF obs[i].pose = "fail"
    THEN TrackLoop(obs, kind, maxResults, i + 1, resultCount, writes)
    ELSE IF ~IsTracked(obs[i])
    THEN TrackLoop(obs, kind, maxResults, i + 1, resultCount, writes)
    ELSE TrackLoop(obs, kind, maxResults, i + 1, resultCount + 1,
                   Append(writes, ResultEntry(resultCount, i, obs[i])))

TrackOutcomes == {"acquireFail", "listFail", "getFail", "ok"}

\* the vuObservationListCreate failure branch without vuStateRelease(state)
ListFailCalls_NoRelease(h) ==
    << Call("vuEngineAcquireLatestState", h, TRUE),
       Call("vuObservationListCreate", h, FALSE) >>

\* if (vuObservationListCreate(&observations) != VU_SUCCESS) {
\*     vuStateRelease(state); return 0; }
ListFailCalls(h) ==
    << Call("vuEngineAcquireLatestState", h, TRUE),
       Call("vuObservationListCreate", h, FALSE),
       Call("vuStateRelease", h, TRUE) >>

\* int getTrackedTargets(Result* results, int maxResults): obs is the
\* observation list of the engine's latest state, outcome what the vendor
\* calls before the loop answer.
getTrackedTargets(t, kind, resultsNull, maxResults, obs, outcome) ==
    IF t.engine_ = NullHandle \/ resultsNull \/ maxResults <= 0
    THEN [count |-> 0, writes |-> <<>>, calls |-> <<>>]
    ELSE IF outcome = "acquireFail"
    THEN [count |-> 0, writes |-> <<>>,
          calls |-> << Call("vuEngineAcquireLatestState", t.engine_, FALSE) >>]
    ELSE IF outcome = "listFail"
    THEN [count |-> 0, writes |-> <<>>, calls |-> ListFailCalls(t.engine_)]
    ELSE IF outcome = "getFail"
    THEN [count |-> 0, writes |-> <<>>,
          calls |-> << Call("vuEngineAcquireLatestState", t.engine_, TRUE),
                       Call("vuObservationListCreate", t.engine_, TRUE),
                       Call("vuStateGetObservations", t.engine_, FALSE),
                       Call("vuObservationListDestroy", t.engine_, TRUE),
                       Call("vuStateRelease", t.engine_, TRUE) >>]
    ELSE LET r == TrackLoop(obs, kind, maxResults, 1, 0, <<>>) IN
         [count |-> r.count, writes |-> r.writes,
          calls |-> << Call("vuEngineAcquireLatestState", t.engine_, TRUE),
                       Call("vuObservationListCreate", t.engine_, TRUE),
                       Call("vuStateGetObservations", t.engine_, TRUE),
                       Call("vuObservationListGetSize", t.engine_, TRUE),
                       Call("vuObservationListDestroy", t.engine_, TRUE),
                       Call("vuStateRelease", t.engine_, TRUE) >>]

----------------------------------------------------------------------------
\* quforia_jni.cpp: the JNI entry points, one action each.

Threads == {1, 2}

IdleThreads ==
    /\ pc = [t \in Threads |-> "idle"]
    /\ local = [t \in Threads |-> NoLocal]
    /\ mutex_ = 0

Init ==
    /\ engine_ = NullHandle
    /\ externalCamera_ = NullHandle
    /\ initialized_ = FALSE
    /\ callback_ = FALSE
    /\ frameIndex_ = 0
    /\ g_imageTargetTracker = NullTracker
    /\ g_modelTargetTracker = NullTracker
    /\ liveEngines = {}
    /\ liveCameras = {}
    /\ liveObservers = {}
    /\ nextId = 1
    /\ lastOp = Op("none", FALSE, 0, <<>>, FALSE)
    /\ IdleThreads
    /\ input = NoInput
    /\ loadHistory = NoLoads

\* The vendor's tables and lastOp after a call that made op.calls.
Completed(op) ==
    /\ liveEngines' = EnginesAfter(liveEngines, op.calls)
    /\ liveCameras' = CamerasAfter(liveCameras, op.calls)
    /\ liveObservers' = ObserversAfter(liveObservers, op.calls)
    /\ lastOp' = op
    /\ UNCHANGED <<threadVars, input, loadHistory>>

UsesId(calls) == \E i \in 1..Len(calls) : calls[i].f = "new ExternalCameraImpl"

\* The wrapper's fields after a call that yields w; a camera object that
\* is new or gone has no callback and frame index 0.
WrapperBecomes(w) ==
    /\ engine_' = w.engine_
    /\ externalCamera_' = w.externalCamera_
    /\ initialized_' = w.initialized_
    /\ callback_' = IF w.externalCamera_ = externalCamera_ THEN callback_ ELSE FALSE
    /\ frameIndex_' = IF w.externalCamera_ = externalCamera_ THEN frameIndex_ ELSE 0
    /\ nextId' = IF UsesId(w.calls) THEN nextId + 1 ELSE nextId

\* if (success) { ... new ImageTargetTracker(engine) ... }  without the test
TrackersCreated_Always(success) == TRUE

TrackersCreated(success) == success

\* Java_com_quforia_QuestVuforiaManager_nativeInitialize
NativeInitialize ==
    \E keyOk \in BOOLEAN, outcome \in InitOutcomes, imgListOk \in BOOLEAN, mdlListOk \in BOOLEAN :
        IF ~keyOk
        THEN /\ UNCHANGED <<wrapperVars, trackerVars, nextId>>
             /\ Completed(Op("nativeInitialize", FALSE, 0, <<>>, initialized_))
        ELSE LET w == initialize(outcome, nextId)
                 engine == getEngine(w)
                 made == TrackersCreated(w.ret)
             IN  /\ UsesId(w.calls) => nextId <= MaxInits
                 /\ WrapperBecomes(w)
                 /\ g_imageTargetTracker' =
                        IF made THEN NewTracker(engine, imgListOk) ELSE g_imageTargetTracker
                 /\ g_modelTargetTracker' =
                        IF made THEN NewTracker(engine, mdlListOk) ELSE g_modelTargetTracker
                 /\ Completed(Op("nativeInitialize", w.ret, 0,
                        w.calls \o (IF made
                                    THEN NewTrackerCalls(engine, imgListOk)
                                         \o NewTrackerCalls(engine, mdlListOk)
                                    ELSE <<>>),
                        initialized_))

\* nativeShutdown that shuts the wrapper down before deleting the trackers
ShutdownCalls_EngineFirst(w) ==
    w.calls \o DeleteTracker(g_imageTargetTracker, "image")
            \o DeleteTracker(g_modelTargetTracker, "model")

\* The calls of nativeShutdown in order: delete g_imageTargetTracker,
\* delete g_modelTargetTracker, then VuforiaEngineWrapper::shutdown().
ShutdownCalls(w) ==
    DeleteTracker(g_imageTargetTracker, "image")
        \o DeleteTracker(g_modelTargetTracker, "model")
        \o w.calls

\* Java_com_quforia_QuestVuforiaManager_nativeShutdown
NativeShutdown ==
    LET w == shutdown IN
        /\ WrapperBecomes(w)
        /\ g_imageTargetTracker' = NullTracker
        /\ g_modelTargetTracker' = NullTracker
        /\ Completed(Op("nativeShutdown", TRUE, 0, ShutdownCalls(w), initialized_))

\* A Java array argument: null, one whose elements cannot be obtained
\* (Get<Type>ArrayElements returns null), or a usable one.
ArrayArgs == {"null", "pinFail", "ok"}

\* The indices of the intrinsics array that are read:
\* intrinsics[0] .. intrinsics[5], and intrinsics[6 + i] for i < 6.
IntrinsicsIndices == (0..5) \cup {6 + i : i \in 0..5}

\* Java_com_quforia_QuestVuforiaManager_nativeProcessFrame: its result, the
\* calls made, the indices of intrinsicsArray read (len is not consulted)
\* and the frames delivered, of the width and height passed (the length of
\* imageData is not consulted)
nativeProcessFrame(imageData, intrinsicsArray, len, width, height) ==
    IF imageData = "null" \/ intrinsicsArray = "null"
    THEN [ret |-> FALSE, calls |-> <<>>, reads |-> {}, frames |-> <<>>]
    ELSE IF imageData = "pinFail" \/ intrinsicsArray = "pinFail"
    THEN [ret |-> FALSE, calls |-> <<>>, reads |-> {}, frames |-> <<>>]
    ELSE [ret |-> processFrame.ret, calls |-> processFrame.calls,
          reads |-> IntrinsicsIndices,
          frames |-> [i \in 1..Len(processFrame.calls) |-> CameraFrame(width, height)]]

FrameCompleted(r) ==
    /\ frameIndex_' = frameIndex_ + Len(r.calls)
    /\ UNCHANGED <<engine_, externalCamera_, initialized_, callback_, trackerVars, nextId>>
    /\ Completed([Op("nativeProcessFrame", r.ret, 0, r.calls, initialized_)
                    EXCEPT !.reads = r.reads, !.frames = r.frames])

NativeProcessFrame ==
    \E imageData \in ArrayArgs, intrinsicsArray \in ArrayArgs :
        LET r == nativeProcessFrame(imageData, intrinsicsArray, IntrinsicsRead, 1, 1) IN
            /\ frameIndex_ + Len(r.calls) <= MaxFrames
            /\ FrameCompleted(r)

\* bool ExternalCameraImpl::start(CameraMode, CameraCallback* cb), called by
\* the vendor engine on the camera object it was configured with
CameraStart ==
    /\ externalCamera_ # NullHandle
    /\ callback_' = TRUE
    /\ UNCHANGED <<engine_, externalCamera_, initialized_, frameIndex_, trackerVars, nextId>>
    /\ Completed(Op("ExternalCamera::start", TRUE, 0, <<>>, initialized_))

\* bool ExternalCameraImpl::stop()
CameraStop ==
    /\ externalCamera_ # NullHandle
    /\ callback_' = FALSE
    /\ UNCHANGED <<engine_, externalCamera_, initialized_, frameIndex_, trackerVars, nextId>>
    /\ Completed(Op("ExternalCamera::stop", TRUE, 0, <<>>, initialized_))

Tracker(kind) == IF kind = "image" THEN g_imageTargetTracker ELSE g_modelTargetTracker

TrackerBecomes(kind, t) ==
    /\ g_imageTargetTracker' = IF kind = "image" THEN t ELSE g_imageTargetTracker
    /\ g_modelTargetTracker' = IF kind = "model" THEN t ELSE g_modelTargetTracker
    /\ UNCHANGED <<wrapperVars, nextId>>

\* if (!g_imageTargetTracker) { ... return JNI_FALSE; }
TrackerMissing(kind) == ~Tracker(kind).obj

\* The database paths tried in the JNI histories.
JniPaths == {NullStr, "db1"}

\* nativeLoadImageTargetDatabase / nativeLoadModelTargetDatabase
NativeLoadTargetDatabase(kind, opName) ==
    \E path \in JniPaths, outcome \in LoadOutcomes :
        IF TrackerMissing(kind)
        THEN /\ UNCHANGED <<wrapperVars, trackerVars, nextId>>
             /\ Completed(Op(opName, FALSE, 0, <<>>, initialized_))
        ELSE LET r == loadDatabase(Tracker(kind), path, outcome) IN
             /\ TrackerBecomes(kind, r.t)
             /\ Completed(Op(opName, r.ret, 0, r.calls, initialized_))

NativeLoadImageTargetDatabase ==
    NativeLoadTargetDatabase("image", "nativeLoadImageTargetDatabase")

NativeLoadModelTargetDatabase ==
    NativeLoadTargetDatabase("model", "nativeLoadModelTargetDatabase")

\* nativeCreateImageTarget / nativeCreateModelTarget
NativeCreateTarget(kind, opName) ==
    \E name \in TargetNames \cup {NullStr}, ok \in BOOLEAN :
        IF TrackerMissing(kind)
        THEN /\ UNCHANGED <<wrapperVars, trackerVars, nextId>>
             /\ Completed(Op(opName, FALSE, 0, <<>>, initialized_))
        ELSE LET r == createTargetObserver(Tracker(kind), kind, name, ok) IN
             /\ TrackerBecomes(kind, r.t)
             /\ Completed(Op(opName, r.ret, 0, r.calls, initialized_))

NativeCreateImageTarget == NativeCreateTarget("image", "nativeCreateImageTarget")

NativeCreateModelTarget == NativeCreateTarget("model", "nativeCreateModelTarget")

\* nativeDestroyImageTarget / nativeDestroyModelTarget
NativeDestroyTarget(kind, opName) ==
    \E name \in TargetNames \cup {NullStr} :
        /\ UNCHANGED <<wrapperVars, trackerVars, nextId>>
        /\ Completed(Op(opName, TRUE, 0,
               IF TrackerMissing(kind) THEN <<>>
               ELSE destroyTargetObserver(Tracker(kind), name),
               initialized_))

NativeDestroyImageTarget == NativeDestroyTarget("image", "nativeDestroyImageTarget")

NativeDestroyModelTarget == NativeDestroyTarget("model", "nativeDestroyModelTarget")

\* n copies of the observation o
Repeat(o, n) == [i \in 1..n |-> o]

\* The observation lists the JNI result calls are tried on: none, one
\* more tracked observation than the result array holds, and a mixed one.
JniObsInputs ==
    { <<>>,
      Repeat(Obs("image", "TRACKED"), ResultCapacity + 1),
      Repeat(Obs("model", "EXTENDED_TRACKED"), ResultCapacity + 1),
      << Obs("model", "TRACKED"), Obs("image", "LIMITED"), Obs("image", "TRACKED") >> }

\* nativeGetImageTargetResults / nativeGetModelTargetResults: count is the
\* length of the array returned
NativeGetTargetResults(kind, opName) ==
    \E obs \in JniObsInputs, outcome \in TrackOutcomes :
        /\ UNCHANGED <<wrapperVars, trackerVars, nextId>>
        /\ IF TrackerMissing(kind)
           THEN Completed(Op(opName, TRUE, 0, <<>>, initialized_))
           ELSE LET r == getTrackedTargets(Tracker(kind), kind, FALSE,
                                           ResultCapacity, obs, outcome) IN
                Completed([Op(opName, TRUE, r.count, r.calls, initialized_)
                              EXCEPT !.writes = r.writes])

NativeGetImageTargetResults ==
    NativeGetTargetResults("image", "nativeGetImageTargetResults")

NativeGetModelTargetResults ==
    NativeGetTargetResults("model", "nativeGetModelTargetResults")

Next ==
    \/ NativeInitialize
    \/ NativeShutdown
    \/ NativeProcessFrame
    \/ CameraStart
    \/ CameraStop
    \/ NativeLoadImageTargetDatabase
    \/ NativeLoadModelTargetDatabase
    \/ NativeCreateImageTarget
    \/ NativeCreateModelTarget
    \/ NativeDestroyImageTarget
    \/ NativeDestroyModelTarget
    \/ NativeGetImageTargetResults
    \/ NativeGetModelTargetResults

\* Sequential histories of JNI calls and vendor camera callbacks.
Spec == Init /\ [][Next]_vars

----------------------------------------------------------------------------
\* Properties of the sequential JNI histories (Spec).

\* the functions named f among calls
CallsTo(calls, f) == {i \in 1..Len(calls) : calls[i].f = f}

TrackerTeardownCalls ==
    {"delete ImageTargetTracker", "delete ModelTargetTracker",
     "vuObserverListGetSize", "vuObserverDestroy", "vuObserverListDestroy"}

\* C1: initialize on an initialized wrapper returns false and changes
\* neither engine_, externalCamera_, initialized_ nor the trackers, and
\* creates no engine or camera; an engine is only ever created while no
\* engine is held.
C1_SingletonLifecycle ==
    [][ /\ (lastOp'.op = "nativeInitialize" /\ initialized_)
            => /\ lastOp'.ret = FALSE
               /\ UNCHANGED <<engine_, externalCamera_, initialized_, trackerVars>>
               /\ liveEngines' = liveEngines
               /\ liveCameras' = liveCameras
        /\ (CallsTo(lastOp'.calls, "vuEngineCreate") # {})
            => (engine_ = NullHandle /\ liveEngines = {})
        /\ Cardinality(liveEngines') <= 1 ]_vars

\* nativeInitialize has been called on an initialized wrapper
C1_Witness ==
    lastOp.op = "nativeInitialize" /\ lastOp.pre /\ ~lastOp.ret /\ initialized_

\* C2: after every completed call, initialized_ holds exactly when engine_
\* and externalCamera_ are both non-null.
C2_InitializedIffHandles ==
    initialized_ <=> (engine_ # NullHandle /\ externalCamera_ # NullHandle)

\* a shutdown of an initialized wrapper has completed
C2_Witness ==
    lastOp.op = "nativeShutdown" /\ lastOp.pre /\ ~initialized_

\* C6: a processFrame call answers true exactly when it handed the frame
\* to the vendor callback once.
C6_TrueMeansDelivered ==
    lastOp.op = "nativeProcessFrame"
        => (lastOp.ret <=> Cardinality(CallsTo(lastOp.calls, "onNewCameraFrame")) = 1)

NeedsInit ==
    {"nativeLoadImageTargetDatabase", "nativeLoadModelTargetDatabase",
     "nativeCreateImageTarget", "nativeCreateModelTarget", "nativeProcessFrame",
     "nativeDestroyImageTarget", "nativeDestroyModelTarget",
     "nativeGetImageTargetResults", "nativeGetModelTargetResults"}

ReturnsBool ==
    {"nativeLoadImageTargetDatabase", "nativeLoadModelTargetDatabase",
     "nativeCreateImageTarget", "nativeCreateModelTarget", "nativeProcessFrame"}

\* C8: both tracker globals are non-null exactly when the wrapper is
\* initialized, which is exactly when the vendor holds a live engine; a
\* call made while it is not initialized makes no vendor call, returns
\* false (load, create, processFrame) or an empty array (results).
C8_NothingWithoutInit ==
    /\ g_imageTargetTracker.obj <=> initialized_
    /\ g_modelTargetTracker.obj <=> initialized_
    /\ initialized_ <=> liveEngines # {}
    /\ (lastOp.op \in NeedsInit /\ ~lastOp.pre)
        => /\ lastOp.calls = <<>>
           /\ lastOp.count = 0
           /\ lastOp.op \in ReturnsBool => lastOp.ret = FALSE

\* a tracker call was made while uninitialized, after an initialize that
\* got as far as creating a camera (one that failed, or one shut down since)
C8_Witness ==
    /\ lastOp.op = "nativeCreateImageTarget"
    /\ ~lastOp.pre
    /\ nextId > 1

\* C9: a nativeInitialize that fails on an uninitialized wrapper leaves no
\* engine or camera object behind, leaves the wrapper fields and the
\* trackers as they were (null, uninitialized), so that the next
\* initialize does not take the already-initialized return.
C9_FailedInitRollsBack ==
    [][ (lastOp'.op = "nativeInitialize" /\ ~initialized_ /\ ~lastOp'.ret)
            => /\ liveEngines' = liveEngines
               /\ liveCameras' = liveCameras
               /\ UNCHANGED <<engine_, externalCamera_, initialized_, trackerVars>>
               /\ ~initialized_'
               /\ engine_' = NullHandle /\ externalCamera_' = NullHandle
               /\ ~g_imageTargetTracker'.obj /\ ~g_modelTargetTracker'.obj ]_vars

\* an initialize has failed at vuEngineStart, after engine and camera
\* were created
C9_Witness ==
    /\ lastOp.op = "nativeInitialize"
    /\ ~lastOp.ret
    /\ \E i \in CallsTo(lastOp.calls, "vuEngineStart") : ~lastOp.calls[i].ok

\* C10: nativeShutdown tears the trackers down before it stops the
\* engine and stops the engine before destroying it; a tracker object
\* only exists while the engine it points to is alive; a shutdown of an
\* uninitialized wrapper calls nothing.
C10_ShutdownOrder ==
    /\ lastOp.op = "nativeShutdown"
        => /\ \A i, j \in 1..Len(lastOp.calls) :
                (/\ lastOp.calls[i].f \in TrackerTeardownCalls
                 /\ lastOp.calls[j].f \in {"vuEngineStop", "vuEngineDestroy"}) => i < j
           /\ \A j \in CallsTo(lastOp.calls, "vuEngineDestroy") :
                \E i \in CallsTo(lastOp.calls, "vuEngineStop") :
                    i < j /\ lastOp.calls[i].h = lastOp.calls[j].h
           /\ lastOp.pre
                => /\ CallsTo(lastOp.calls, "delete ImageTargetTracker") # {}
                   /\ CallsTo(lastOp.calls, "delete ModelTargetTracker") # {}
                   /\ Cardinality(CallsTo(lastOp.calls, "vuEngineDestroy")) = 1
           /\ ~lastOp.pre => lastOp.calls = <<>>
    /\ g_imageTargetTracker.obj => g_imageTargetTracker.engine_ \in liveEngines
    /\ g_modelTargetTracker.obj => g_modelTargetTracker.engine_ \in liveEngines

\* a shutdown has deleted trackers with observer lists and destroyed the engine
C10_Witness ==
    /\ lastOp.op = "nativeShutdown"
    /\ lastOp.pre
    /\ Cardinality(CallsTo(lastOp.calls, "vuObserverListDestroy")) = 2
    /\ CallsTo(lastOp.calls, "vuEngineDestroy") # {}

----------------------------------------------------------------------------
\* Single calls on drawn inputs.  Both start in a state of Spec: the one
\* right after construction, or the one a first successful
\* nativeInitialize leaves (engine, camera and trackers with handle 1),
\* with the camera started by the vendor when started is TRUE.

AfterInitializeState(started) ==
    /\ engine_ = 1
    /\ externalCamera_ = 1
    /\ initialized_ = TRUE
    /\ callback_ = started
    /\ frameIndex_ = 0
    /\ g_imageTargetTracker = NewTracker(1, TRUE)
    /\ g_modelTargetTracker = NewTracker(1, TRUE)
    /\ liveEngines = {1}
    /\ liveCameras = {1}
    /\ liveObservers = {}
    /\ nextId = 2
    /\ lastOp = IF started THEN Op("ExternalCamera::start", TRUE, 0, <<>>, TRUE)
                ELSE Op("nativeInitialize", TRUE, 0,
                        InitSucceeded(1).calls \o NewTrackerCalls(1, TRUE)
                                               \o NewTrackerCalls(1, TRUE), FALSE)
    /\ loadHistory = NoLoads

AfterInitialize(started) ==
    /\ AfterInitializeState(started)
    /\ IdleThreads

BeforeInitialize ==
    /\ engine_ = NullHandle
    /\ externalCamera_ = NullHandle
    /\ initialized_ = FALSE
    /\ callback_ = FALSE
    /\ frameIndex_ = 0
    /\ g_imageTargetTracker = NullTracker
    /\ g_modelTargetTracker = NullTracker
    /\ liveEngines = {}
    /\ liveCameras = {}
    /\ liveObservers = {}
    /\ nextId = 1
    /\ lastOp = Op("none", FALSE, 0, <<>>, FALSE)
    /\ IdleThreads
    /\ loadHistory = NoLoads

\* Observations: every type and pose for the two target types, one of
\* another type.
ObsKinds ==
    {Obs(type, pose) : type \in {"image", "model"}, pose \in PoseStatuses \cup {"fail"}}
        \cup {Obs("other", "TRACKED")}

ObsLists(n) == UNION {[1..k -> ObsKinds] : k \in 0..n}

\* Lists longer than the JNI result array: ResultCapacity + 1 tracked
\* targets of one kind, and image and model targets in turn.
LongObsLists ==
    {Repeat(Obs(type, pose), ResultCapacity + 1) :
        type \in {"image", "model"}, pose \in {"TRACKED", "EXTENDED_TRACKED"}}
    \cup {[i \in 1..(2 * ResultCapacity + 2) |->
            IF i % 2 = 1 THEN Obs("image", "TRACKED") ELSE Obs("model", "TRACKED")]}

\* Tracked observations whose target-info query succeeds, fails or gives
\* a null name, with names up to and beyond the name buffer, and whose
\* status-info query succeeds or fails.
NamedObsKinds ==
    {NamedObs(type, info, nameLen, statusOk) :
        type \in {"image", "model"}, info \in {"ok", "fail", "null"},
        nameLen \in {NameSize - 2, NameSize - 1, NameSize, NameSize + 1},
        statusOk \in BOOLEAN}

\* One of them alone, or before or after a tracked target "a".
NamedObsLists ==
    {<<o>> : o \in NamedObsKinds}
    \cup {<<o, Obs(type, "TRACKED")>> : o \in NamedObsKinds, type \in {"image", "model"}}
    \cup {<<Obs(type, "TRACKED"), o>> : o \in NamedObsKinds, type \in {"image", "model"}}

TrackInputs ==
    [kind : {"track"}, tracker : TrackerKinds,
     nulls : {"none", "engine", "results"},
     maxResults : (-1..MaxResultsArg) \cup {ResultCapacity},
     obs : ObsLists(MaxObs) \cup LongObsLists \cup NamedObsLists]

InitTrack ==
    /\ AfterInitialize(FALSE)
    /\ input \in TrackInputs

\* One call tracker->getTrackedTargets(results, maxResults) on the input.
GetTrackedTargets ==
    /\ input.kind = "track"
    /\ lastOp.op # "getTrackedTargets"
    /\ \E outcome \in TrackOutcomes :
        LET t == IF input.nulls = "engine"
                 THEN [Tracker(input.tracker) EXCEPT !.engine_ = NullHandle]
                 ELSE Tracker(input.tracker)
            r == getTrackedTargets(t, input.tracker, input.nulls = "results",
                                   input.maxResults, input.obs, outcome)
        IN  /\ UNCHANGED <<wrapperVars, trackerVars, nextId>>
            /\ Completed([Op("getTrackedTargets", TRUE, r.count, r.calls, TRUE)
                            EXCEPT !.writes = r.writes])

\* Single getTrackedTargets calls on all bounded inputs.
SpecTrack == InitTrack /\ [][GetTrackedTargets]_vars

\* widths and heights: negative, zero, small, and large enough for
\* width * height * 3 to leave the range of int
FrameDims == {-1, 0, 2, 32768, 65536}

\* lengths of the image byte array: empty, and the 2 x 2 RGB image less
\* one byte, exactly, and more
ImageLens == {0, 11, 12, 13}

FrameInputs ==
    [kind : {"frame"}, imageData : ArrayArgs, intrinsicsArray : ArrayArgs,
     len : 0..(IntrinsicsRead + IntrinsicsSlack),
     width : FrameDims, height : FrameDims, imageLen : ImageLens]

InitFrame ==
    /\ BeforeInitialize \/ AfterInitialize(FALSE) \/ AfterInitialize(TRUE)
    /\ input \in FrameInputs

\* One nativeProcessFrame call with an intrinsics array of input.len
\* floats.  A read at or beyond the array's length is undefined: it yields
\* some value and the call goes on, or the call faults.
ProcessFrameCall ==
    /\ input.kind = "frame"
    /\ lastOp.op # "nativeProcessFrame"
    /\ LET r == nativeProcessFrame(input.imageData, input.intrinsicsArray, input.len,
                                   input.width, input.height) IN
        \E fault \in BOOLEAN :
            /\ fault => \E i \in r.reads : i >= input.len
            /\ IF fault
               THEN /\ UNCHANGED <<wrapperVars, trackerVars, nextId>>
                    /\ Completed([Op("nativeProcessFrame", FALSE, 0, <<>>, initialized_)
                                    EXCEPT !.reads = r.reads, !.fault = TRUE])
               ELSE FrameCompleted(r)

\* Single nativeProcessFrame calls on all bounded inputs.
SpecFrame == InitFrame /\ [][ProcessFrameCall]_vars

----------------------------------------------------------------------------
\* Properties of getTrackedTargets (SpecTrack).

Max(a, b) == IF a >= b THEN a ELSE b

Min(a, b) == IF a <= b THEN a ELSE b

\* C4: the count returned is between 0 and maxResults (0 when maxResults
\* is not positive), only results[0 .. count-1] are written, nothing is
\* written and 0 returned for a null engine, null results or
\* maxResults <= 0, and with maxResults = 10 at most 10 entries come back.
C4_CountWithinBounds ==
    lastOp.op = "getTrackedTargets"
        => /\ 0 <= lastOp.count
           /\ lastOp.count <= Max(input.maxResults, 0)
           /\ \A k \in 1..Len(lastOp.writes) :
                0 <= lastOp.writes[k].slot /\ lastOp.writes[k].slot < lastOp.count
           /\ (input.nulls # "none" \/ input.maxResults <= 0)
                => (lastOp.count = 0 /\ lastOp.writes = <<>>)
           /\ input.maxResults = ResultCapacity => lastOp.count <= 10

\* the result array was filled although more targets were tracked
C4_Witness ==
    /\ lastOp.op = "getTrackedTargets"
    /\ input.maxResults = ResultCapacity
    /\ lastOp.count = ResultCapacity
    /\ Len(input.obs) > ResultCapacity

\* the observations of the list a tracker of this kind reports
Qualifying(obs, kind) ==
    {i \in 1..Len(obs) :
        obs[i].type = kind /\ obs[i].pose \in {"TRACKED", "EXTENDED_TRACKED"}}

\* the call got as far as reading the observations
ObservationsRead ==
    \E i \in CallsTo(lastOp.calls, "vuStateGetObservations") : lastOp.calls[i].ok

\* C7: when the observations are read, the entries written are, slot by
\* slot, the first maxResults observations of the tracker's own type with
\* status TRACKED or EXTENDED_TRACKED, in list order; nothing of another
\* type or status is returned.
C7_FirstTrackedOfOwnType ==
    (lastOp.op = "getTrackedTargets" /\ ObservationsRead)
        => LET q == Qualifying(input.obs, input.tracker)
               w == lastOp.writes
           IN  /\ lastOp.count = Min(Cardinality(q), input.maxResults)
               /\ Len(w) = lastOp.count
               /\ \A k \in 1..Len(w) :
                    /\ w[k].slot = k - 1
                    /\ w[k].obs \in q
                    /\ Cardinality({i \in q : i < w[k].obs}) = k - 1

\* a tracked target was returned after skipping an observation that does
\* not qualify, and a later tracked one was cut off by maxResults
C7_Witness ==
    /\ lastOp.op = "getTrackedTargets"
    /\ ObservationsRead
    /\ lastOp.count = 1
    /\ lastOp.writes[1].obs = 2
    /\ Cardinality(Qualifying(input.obs, input.tracker)) > 1

\* C5: nativeProcessFrame reads the intrinsics array only below its
\* length, and answers false for an array of fewer than 12 floats.
C5_IntrinsicsReadInBounds ==
    lastOp.op = "nativeProcessFrame"
        => /\ \A i \in lastOp.reads : i < input.len
           /\ input.len < IntrinsicsRead => lastOp.ret = FALSE

----------------------------------------------------------------------------
\* Concurrent calls of the wrapper's public methods by two threads.
\* initialize, shutdown and processFrame take std::lock_guard on mutex_;
\* getEngine, isInitialized and acquireLatestState take no lock.  A step is
\* one access to a field or one vendor call.

InUpdate == {"init_create", "init_start", "shut_engine", "shut_camera", "shut_flag"}

\* another thread is between the first and the last write of an update
MidUpdate(t) == \E u \in Threads \ {t} : pc[u] \in InUpdate

Goto(t, p) == pc' = [pc EXCEPT ![t] = p]

Unlock(t) == mutex_' = 0

SeqVarsSame ==
    UNCHANGED <<trackerVars, liveObservers, lastOp, input, loadHistory, callback_, frameIndex_>>

\* a thread enters initialize, shutdown or processFrame
Begin(t) ==
    /\ pc[t] = "idle"
    /\ \E m \in {"init_lock", "shut_lock", "frame_lock"} : Goto(t, m)
    /\ UNCHANGED <<engine_, externalCamera_, initialized_, liveEngines, liveCameras,
                   nextId, local, mutex_>>
    /\ SeqVarsSame

\* std::lock_guard<std::mutex> lock(mutex_)
Lock(t) ==
    /\ pc[t] \in {"init_lock", "shut_lock", "frame_lock"}
    /\ mutex_ = 0
    /\ mutex_' = t
    /\ Goto(t, CASE pc[t] = "init_lock" -> "init_check"
                 [] pc[t] = "shut_lock" -> "shut_check"
                 [] OTHER -> "frame_body")
    /\ UNCHANGED <<engine_, externalCamera_, initialized_, liveEngines, liveCameras,
                   nextId, local>>
    /\ SeqVarsSame

\* initialize: the initialized_ test, vuEngineConfigSetCreate,
\* externalCamera_ = new ExternalCameraImpl()
InitCheck(t) ==
    /\ pc[t] = "init_check"
    /\ \E configOk \in BOOLEAN :
        IF initialized_ \/ ~configOk
        THEN /\ Goto(t, "idle") /\ Unlock(t)
             /\ UNCHANGED <<engine_, externalCamera_, initialized_, liveEngines,
                            liveCameras, nextId, local>>
        ELSE /\ nextId <= MaxInits
             /\ externalCamera_' = nextId
             /\ liveCameras' = liveCameras \cup {nextId}
             /\ nextId' = nextId + 1
             /\ Goto(t, "init_create")
             /\ UNCHANGED <<engine_, initialized_, liveEngines, local, mutex_>>
    /\ SeqVarsSame

\* initialize: vuEngineCreate(&engine_, ...) and its failure branch
InitCreate(t) ==
    /\ pc[t] = "init_create"
    /\ \E ok \in BOOLEAN :
        IF ok
        THEN /\ engine_' = externalCamera_
             /\ liveEngines' = liveEngines \cup {externalCamera_}
             /\ Goto(t, "init_start")
             /\ UNCHANGED <<externalCamera_, initialized_, liveCameras, nextId, local, mutex_>>
        ELSE /\ liveCameras' = liveCameras \ {externalCamera_}
             /\ externalCamera_' = NullHandle
             /\ Goto(t, "idle") /\ Unlock(t)
             /\ UNCHANGED <<engine_, initialized_, liveEngines, nextId, local>>
    /\ SeqVarsSame

\* initialize: vuEngineStart(engine_), its failure branch, initialized_ = true
InitStart(t) ==
    /\ pc[t] = "init_start"
    /\ \E ok \in BOOLEAN :
        IF ok
        THEN /\ initialized_' = TRUE
             /\ UNCHANGED <<engine_, externalCamera_, liveEngines, liveCameras>>
        ELSE /\ liveEngines' = liveEngines \ {engine_}
             /\ engine_' = NullHandle
             /\ liveCameras' = liveCameras \ {externalCamera_}
             /\ externalCamera_' = NullHandle
             /\ UNCHANGED initialized_
    /\ Goto(t, "idle") /\ Unlock(t)
    /\ UNCHANGED <<nextId, local>>
    /\ SeqVarsSame

\* shutdown: the initialized_ test, vuEngineStop and vuEngineDestroy
ShutCheck(t) ==
    /\ pc[t] = "shut_check"
    /\ IF ~initialized_
       THEN /\ Goto(t, "idle") /\ Unlock(t)
            /\ UNCHANGED liveEngines
       ELSE /\ liveEngines' = liveEngines \ {engine_}
            /\ Goto(t, "shut_engine")
            /\ UNCHANGED mutex_
    /\ UNCHANGED <<engine_, externalCamera_, initialized_, liveCameras, nextId, local>>
    /\ SeqVarsSame

\* shutdown: engine_ = nullptr
ShutEngine(t) ==
    /\ pc[t] = "shut_engine"
    /\ engine_' = NullHandle
    /\ Goto(t, "shut_camera")
    /\ UNCHANGED <<externalCamera_, initialized_, liveEngines, liveCameras, nextId,
                   local, mutex_>>
    /\ SeqVarsSame

\* shutdown: delete externalCamera_; externalCamera_ = nullptr
ShutCamera(t) ==
    /\ pc[t] = "shut_camera"
    /\ liveCameras' = liveCameras \ {externalCamera_}
    /\ externalCamera_' = NullHandle
    /\ Goto(t, "shut_flag")
    /\ UNCHANGED <<engine_, initialized_, liveEngines, nextId, local, mutex_>>
    /\ SeqVarsSame

\* shutdown: initialized_ = false, and the lock is released
ShutFlag(t) ==
    /\ pc[t] = "shut_flag"
    /\ initialized_' = FALSE
    /\ Goto(t, "idle") /\ Unlock(t)
    /\ UNCHANGED <<engine_, externalCamera_, liveEngines, liveCameras, nextId, local>>
    /\ SeqVarsSame

\* processFrame: its body, under the lock (no camera is started in these
\* histories, so deliverFrame returns at its callback_ test)
FrameBody(t) ==
    /\ pc[t] = "frame_body"
    /\ local' = [local EXCEPT ![t] =
            [h |-> externalCamera_, guarded |-> mutex_ = t, torn |-> MidUpdate(t),
             stale |-> FALSE]]
    /\ Goto(t, "idle") /\ Unlock(t)
    /\ UNCHANGED <<engine_, externalCamera_, initialized_, liveEngines, liveCameras, nextId>>
    /\ SeqVarsSame

\* VuEngine* getEngine() const { return engine_; }
\* bool isInitialized() const { return initialized_; }
ReadField(t) ==
    /\ pc[t] = "idle"
    /\ local' = [local EXCEPT ![t] =
            [h |-> engine_, guarded |-> mutex_ = t, torn |-> MidUpdate(t),
             stale |-> FALSE]]
    /\ UNCHANGED <<engine_, externalCamera_, initialized_, liveEngines, liveCameras,
                   nextId, pc, mutex_>>
    /\ SeqVarsSame

\* acquireLatestState: if (!initialized_ || !engine_) return nullptr;
AcquireCheck(t) ==
    /\ pc[t] = "idle"
    /\ local' = [local EXCEPT ![t] =
            [h |-> engine_, guarded |-> mutex_ = t, torn |-> MidUpdate(t),
             stale |-> FALSE]]
    /\ Goto(t, IF ~initialized_ \/ engine_ = NullHandle THEN "idle" ELSE "acquire_call")
    /\ UNCHANGED <<engine_, externalCamera_, initialized_, liveEngines, liveCameras,
                   nextId, mutex_>>
    /\ SeqVarsSame

\* acquireLatestState: vuEngineAcquireLatestState(engine_, &state)
AcquireCall(t) ==
    /\ pc[t] = "acquire_call"
    /\ local' = [local EXCEPT ![t] =
            [h |-> engine_, guarded |-> mutex_ = t, torn |-> MidUpdate(t),
             stale |-> engine_ \notin liveEngines]]
    /\ Goto(t, "idle")
    /\ UNCHANGED <<engine_, externalCamera_, initialized_, liveEngines, liveCameras,
                   nextId, mutex_>>
    /\ SeqVarsSame

NextConc ==
    \E t \in Threads :
        \/ Begin(t)
        \/ Lock(t)
        \/ InitCheck(t)
        \/ InitCreate(t)
        \/ InitStart(t)
        \/ ShutCheck(t)
        \/ ShutEngine(t)
        \/ ShutCamera(t)
        \/ ShutFlag(t)
        \/ FrameBody(t)
        \/ ReadField(t)
        \/ AcquireCheck(t)
        \/ AcquireCall(t)

\* Two threads calling the wrapper's methods in any interleaving.
SpecConc == Init /\ [][NextConc]_vars

\* C3: every read or write of engine_ / initialized_ by a public method
\* is made holding mutex_, so no thread reads them while another is in
\* the middle of initialize or shutdown, and none passes the vendor an
\* engine handle that shutdown has destroyed.
C3_AccessorsGuarded ==
    \A t \in Threads :
        local[t].guarded /\ ~local[t].torn /\ ~local[t].stale

\* the part of C3 about destroyed handles alone
NoStaleEngineUse == \A t \in Threads : ~local[t].stale

----------------------------------------------------------------------------
\* Histories of calls on the two trackers of one initialized engine:
\* loadDatabase, createTargetObserver, destroyTargetObserver,
\* destroyAllObservers and the destructor, with every result of the vendor.

TrackerPaths == DbPaths \cup {NullStr}

TrackerArgs(kind, name, path) ==
    [kind |-> "tracker", tracker |-> kind, name |-> name, path |-> path]

InitTracker ==
    /\ AfterInitialize(FALSE)
    /\ input = NoInput

TrackerCompleted(op, args, loads) ==
    /\ liveObservers' = ObserversAfter(liveObservers, op.calls)
    /\ lastOp' = op
    /\ input' = args
    /\ loadHistory' = loads
    /\ UNCHANGED <<liveEngines, liveCameras, threadVars>>

\* the last loadDatabase that returned true on the tracker
LoadsAfter(kind, path, ret) ==
    IF ret THEN [loadHistory EXCEPT ![kind] = [loaded |-> TRUE, path |-> path]]
    ELSE loadHistory

LoadDatabaseCall ==
    \E kind \in TrackerKinds, path \in TrackerPaths, outcome \in LoadOutcomes :
        /\ Tracker(kind).obj
        /\ LET r == loadDatabase(Tracker(kind), path, outcome) IN
           /\ TrackerBecomes(kind, r.t)
           /\ TrackerCompleted(Op("loadDatabase", r.ret, 0, r.calls, TRUE),
                               TrackerArgs(kind, "", path),
                               LoadsAfter(kind, path, r.ret))

CreateTargetObserverCall ==
    \E kind \in TrackerKinds, name \in TargetNames \cup {NullStr}, ok \in BOOLEAN :
        /\ Tracker(kind).obj
        /\ LET r == createTargetObserver(Tracker(kind), kind, name, ok) IN
           /\ TrackerBecomes(kind, r.t)
           /\ TrackerCompleted(Op("createTargetObserver", r.ret, 0, r.calls, TRUE),
                               TrackerArgs(kind, name, ""), loadHistory)

DestroyTargetObserverCall ==
    \E kind \in TrackerKinds, name \in TargetNames \cup {NullStr} :
        /\ Tracker(kind).obj
        /\ UNCHANGED <<wrapperVars, trackerVars, nextId>>
        /\ TrackerCompleted(Op("destroyTargetObserver", TRUE, 0,
                               destroyTargetObserver(Tracker(kind), name), TRUE),
                            TrackerArgs(kind, name, ""), loadHistory)

DestroyAllObserversCall ==
    \E kind \in TrackerKinds :
        /\ Tracker(kind).obj
        /\ UNCHANGED <<wrapperVars, trackerVars, nextId>>
        /\ TrackerCompleted(Op("destroyAllObservers", TRUE, 0,
                               destroyAllObservers(Tracker(kind)), TRUE),
                            TrackerArgs(kind, "", ""), loadHistory)

\* ImageTargetTracker::~ImageTargetTracker()
TrackerDestructor ==
    \E kind \in TrackerKinds :
        /\ Tracker(kind).obj
        /\ TrackerBecomes(kind, NullTracker)
        /\ TrackerCompleted(Op("~TargetTracker", TRUE, 0,
                               DeleteTracker(Tracker(kind), kind), TRUE),
                            TrackerArgs(kind, "", ""), loadHistory)

NextTracker ==
    \/ LoadDatabaseCall
    \/ CreateTargetObserverCall
    \/ DestroyTargetObserverCall
    \/ DestroyAllObserversCall
    \/ TrackerDestructor

SpecTracker == InitTracker /\ [][NextTracker]_vars

\* Claim C11: createTargetObserver returns false without calling the
\* engine unless an earlier loadDatabase on the same tracker returned true;
\* an observer is created on the path of the last loadDatabase that
\* returned true; a loadDatabase that returns false leaves databasePath_
\* as it was and one that returns true sets it to its argument.
C11_DatabaseBeforeObservers ==
    [][\A k \in TrackerKinds :
         /\ (lastOp'.op = "createTargetObserver" /\ input'.tracker = k) =>
              /\ ~loadHistory[k].loaded => (~lastOp'.ret /\ lastOp'.calls = <<>>)
              /\ \A i \in 1..Len(lastOp'.calls) :
                    lastOp'.calls[i].f = CreateObserverFn(k) =>
                        /\ loadHistory[k].loaded
                        /\ lastOp'.calls[i].db = loadHistory[k].path
         /\ (lastOp'.op = "loadDatabase" /\ input'.tracker = k) =>
              Tracker(k)'.databasePath_ =
                  IF lastOp'.ret THEN input'.path ELSE Tracker(k).databasePath_
      ]_vars

\* an observer created on "db2" after "db2" was the last database loaded
C11_Witness ==
    /\ lastOp.op = "createTargetObserver"
    /\ lastOp.ret
    /\ input.tracker = "image"
    /\ loadHistory["image"] = [loaded |-> TRUE, path |-> "db2"]
    /\ Len(lastOp.calls) = 1
    /\ lastOp.calls[1].db = "db2"

\* The observers the vendor holds that the tracker of this kind created.
ObserversOf(kind) == {o \in liveObservers : o.f = CreateObserverFn(kind)}

\* Claim C12: after destroyTargetObserver(name) the observer the tracker
\* created for that name is destroyed, and after destroyAllObservers or
\* the destructor none of the observers the tracker created is left.
C12_ObserversDestroyed ==
    /\ (lastOp.op = "destroyTargetObserver" /\ input.name # NullStr) =>
           \A o \in ObserversOf(input.tracker) : o.name # input.name
    /\ lastOp.op \in {"destroyAllObservers", "~TargetTracker"} =>
           ObserversOf(input.tracker) = {}

----------------------------------------------------------------------------
\* Claims about the result entries and the vendor resources of single
\* getTrackedTargets calls (SpecTrack).

\* Claim C13: every entry getTrackedTargets wrote has its name set from
\* its own observation (the target's name cut to NameSize - 1 characters,
\* never what the buffer held before the call, also when the target-info
\* query fails or gives a null name) and its status set to the vendor's
\* status, or 0 when the status query fails.
C13_EntriesFullySet ==
    lastOp.op = "getTrackedTargets" =>
        \A j \in 1..Len(lastOp.writes) :
            LET w == lastOp.writes[j]
                o == input.obs[w.obs]
            IN  /\ w.name # "UNINIT"
                /\ w.nameLen \in 0..(NameSize - 1)
                /\ o.info = "ok" =>
                     (w.name = o.name /\ w.nameLen <= o.nameLen
                        /\ (o.nameLen < NameSize => w.nameLen = o.nameLen))
                /\ w.status = IF o.statusOk THEN o.status ELSE 0

\* the calls to f among calls that succeeded
Succeeded(calls, f) == {i \in CallsTo(calls, f) : calls[i].ok}

\* every call to release comes after its own call to acquire, one each
Paired(calls, acquire, release) ==
    /\ Cardinality(Succeeded(calls, acquire)) = Cardinality(CallsTo(calls, release))
    /\ Cardinality(CallsTo(calls, release)) <= 1
    /\ \A r \in CallsTo(calls, release) : \E a \in Succeeded(calls, acquire) : a < r

\* Claim C15: on every path of getTrackedTargets each state acquired by
\* vuEngineAcquireLatestState is released exactly once by vuStateRelease
\* and each list created by vuObservationListCreate is destroyed exactly
\* once by vuObservationListDestroy, so nothing stays held after a call.
C15_ResourcesBalanced ==
    lastOp.op = "getTrackedTargets" =>
        /\ Paired(lastOp.calls, "vuEngineAcquireLatestState", "vuStateRelease")
        /\ Paired(lastOp.calls, "vuObservationListCreate", "vuObservationListDestroy")

\* the call acquired a state, failed to create the list and released the
\* state
C15_Witness ==
    /\ lastOp.op = "getTrackedTargets"
    /\ Succeeded(lastOp.calls, "vuEngineAcquireLatestState") # {}
    /\ CallsTo(lastOp.calls, "vuObservationListCreate") # {}
    /\ Succeeded(lastOp.calls, "vuObservationListCreate") = {}
    /\ CallsTo(lastOp.calls, "vuStateRelease") # {}

\* Claim C16: the bufferSize of every frame nativeProcessFrame delivers
\* (width * height * 3 in int) is non-negative and at most the length of
\* the image byte array, and its stride is width * 3; a call whose width
\* and height do not fit the array delivers nothing.  (SpecFrame)
C16_BufferFitsArray ==
    lastOp.op = "nativeProcessFrame" =>
        \A i \in 1..Len(lastOp.frames) :
            /\ lastOp.frames[i].bufferSize >= 0
            /\ lastOp.frames[i].bufferSize <= input.imageLen
            /\ lastOp.frames[i].stride = Mul32(input.width, 3)

----------------------------------------------------------------------------
\* quforia_jni.cpp called from two threads: nativeShutdown and the tracker
\* calls (nativeGet*TargetResults), a step for each access to the tracker
\* globals, which no lock guards.  A thread's local is
\*   kind   the tracker its call is about
\*   ptr    the tracker it found at its null test
\*   held   it holds that tracker's mutex_
\*   uaf    its tracker call used a tracker object already deleted
\*   twice  its nativeShutdown deleted a tracker object already deleted
\*   stale  it passed the vendor an engine already destroyed

\* where a thread is: the step and the tracker it is about
JniIdle == <<"idle", "">>

NoTrackerCall ==
    [kind |-> "image", ptr |-> NullTracker, held |-> FALSE, uaf |-> FALSE,
     twice |-> FALSE, stale |-> FALSE]

InitJni ==
    /\ AfterInitializeState(FALSE)
    /\ pc = [t \in Threads |-> JniIdle]
    /\ local = [t \in Threads |-> NoTrackerCall]
    /\ mutex_ = 0
    /\ input = NoInput

\* delete g_<kind>TargetTracker has run and g_<kind>TargetTracker = nullptr
\* has not yet
Deleted(kind) == \E u \in Threads : pc[u] = <<"sd_null", kind>>

TrackerAlive(kind) == Tracker(kind).obj /\ ~Deleted(kind)

\* another thread is inside a method of the tracker, holding its mutex_
TrackerLocked(t, kind) ==
    \E u \in Threads \ {t} : local[u].held /\ local[u].kind = kind

JniSame == UNCHANGED <<lastOp, input, loadHistory, nextId, mutex_>>

\* a thread enters nativeShutdown or nativeGet<kind>TargetResults
JniBegin(t) ==
    /\ pc[t] = JniIdle
    /\ \/ /\ Goto(t, <<"sd_check", "image">>)
          /\ UNCHANGED local
       \/ \E kind \in TrackerKinds :
            /\ Goto(t, <<"tr_check", kind>>)
            /\ local' = [local EXCEPT ![t].kind = kind, ![t].ptr = NullTracker]
    /\ UNCHANGED <<wrapperVars, trackerVars, liveEngines, liveCameras, liveObservers>>
    /\ JniSame

AfterTracker(kind) == IF kind = "image" THEN <<"sd_check", "model">> ELSE <<"sd_wrapper", "">>

\* nativeShutdown: if (g_imageTargetTracker) {
SdCheck(t) ==
    /\ \E kind \in TrackerKinds :
        /\ pc[t] = <<"sd_check", kind>>
        /\ Goto(t, IF Tracker(kind).obj THEN <<"sd_delete", kind>> ELSE AfterTracker(kind))
    /\ UNCHANGED <<wrapperVars, trackerVars, liveEngines, liveCameras, liveObservers, local>>
    /\ JniSame

\* nativeShutdown: delete g_imageTargetTracker; the destructor waits for
\* mutex_ in destroyAllObservers.  The pointer is read again without a
\* lock: when another thread has deleted the object meanwhile this deletes
\* it a second time, unless the read sees the nullptr stored since.
SdDelete(t) ==
    /\ \E kind \in TrackerKinds :
        /\ pc[t] = <<"sd_delete", kind>>
        /\ IF TrackerAlive(kind)
           THEN /\ ~TrackerLocked(t, kind)
                /\ liveObservers' =
                       ObserversAfter(liveObservers, DeleteTracker(Tracker(kind), kind))
                /\ UNCHANGED local
           ELSE /\ \E seesNull \in BOOLEAN :
                     /\ seesNull => ~Tracker(kind).obj
                     /\ local' = [local EXCEPT ![t].twice = @ \/ ~seesNull]
                /\ UNCHANGED liveObservers
        /\ Goto(t, <<"sd_null", kind>>)
    /\ UNCHANGED <<wrapperVars, trackerVars, liveEngines, liveCameras>>
    /\ JniSame

\* nativeShutdown: g_imageTargetTracker = nullptr;
SdNull(t) ==
    /\ \E kind \in TrackerKinds :
        /\ pc[t] = <<"sd_null", kind>>
        /\ g_imageTargetTracker' = IF kind = "image" THEN NullTracker ELSE g_imageTargetTracker
        /\ g_modelTargetTracker' = IF kind = "model" THEN NullTracker ELSE g_modelTargetTracker
        /\ Goto(t, AfterTracker(kind))
    /\ UNCHANGED <<wrapperVars, liveEngines, liveCameras, liveObservers, local>>
    /\ JniSame

\* nativeShutdown: VuforiaEngineWrapper::getInstance().shutdown();
SdWrapper(t) ==
    /\ pc[t] = <<"sd_wrapper", "">>
    /\ LET w == shutdown IN
        /\ engine_' = w.engine_
        /\ externalCamera_' = w.externalCamera_
        /\ initialized_' = w.initialized_
        /\ liveEngines' = EnginesAfter(liveEngines, w.calls)
        /\ liveCameras' = CamerasAfter(liveCameras, w.calls)
        /\ liveObservers' = ObserversAfter(liveObservers, w.calls)
    /\ Goto(t, JniIdle)
    /\ UNCHANGED <<callback_, frameIndex_, trackerVars, local>>
    /\ JniSame

\* nativeGetImageTargetResults: if (!g_imageTargetTracker) return ...;
TrCheck(t) ==
    /\ \E kind \in TrackerKinds :
        /\ pc[t] = <<"tr_check", kind>>
        /\ local' = [local EXCEPT ![t].ptr = Tracker(kind)]
        /\ Goto(t, IF Tracker(kind).obj THEN <<"tr_lock", kind>> ELSE JniIdle)
    /\ UNCHANGED <<wrapperVars, trackerVars, liveEngines, liveCameras, liveObservers>>
    /\ JniSame

\* g_imageTargetTracker->getTrackedTargets(results, 10):
\* std::lock_guard<std::mutex> lock(mutex_) on the object the pointer
\* names; on a deleted object the call may go on or fault.
TrLock(t) ==
    /\ \E kind \in TrackerKinds :
        /\ pc[t] = <<"tr_lock", kind>>
        /\ IF TrackerAlive(kind)
           THEN /\ ~TrackerLocked(t, kind)
                /\ local' = [local EXCEPT ![t].held = TRUE]
                /\ Goto(t, <<"tr_body", kind>>)
           ELSE /\ local' = [local EXCEPT ![t].uaf = TRUE]
                /\ \E faults \in BOOLEAN :
                     Goto(t, IF faults THEN JniIdle ELSE <<"tr_body", kind>>)
    /\ UNCHANGED <<wrapperVars, trackerVars, liveEngines, liveCameras, liveObservers>>
    /\ JniSame

\* getTrackedTargets: if (!engine_ || ...) return 0;
\* vuEngineAcquireLatestState(engine_, &state) ... and the lock is released
TrBody(t) ==
    /\ \E kind \in TrackerKinds :
        /\ pc[t] = <<"tr_body", kind>>
        /\ local' = [local EXCEPT
                       ![t].held = FALSE,
                       ![t].stale = @ \/ (local[t].ptr.engine_ # NullHandle
                                            /\ local[t].ptr.engine_ \notin liveEngines)]
        /\ Goto(t, JniIdle)
    /\ UNCHANGED <<wrapperVars, trackerVars, liveEngines, liveCameras, liveObservers>>
    /\ JniSame

NextJni ==
    \E t \in Threads :
        \/ JniBegin(t)
        \/ SdCheck(t)
        \/ SdDelete(t)
        \/ SdNull(t)
        \/ SdWrapper(t)
        \/ TrCheck(t)
        \/ TrLock(t)
        \/ TrBody(t)

\* nativeShutdown and tracker calls on two threads, in any interleaving.
SpecJni == InitJni /\ [][NextJni]_vars

\* Claim C14: under any interleaving of nativeShutdown with a tracker
\* call on another thread, no thread uses a tracker object after it was
\* deleted, and no tracker method calls the engine after vuEngineDestroy.
C14_NoUseAfterShutdown ==
    \A t \in Threads : ~local[t].uaf /\ ~local[t].stale

====
